---- MODULE Spec2Model ----
(***************************************************************************)
(* Model of the IoStore container-ID patcher of the Stellar Blade plugins: *)
(* UTOCParser (parse_utoc, _parse_header, generate_u64_id) and the batch   *)
(* loop of StellarBlade_Chunk_Id_Patcher (display, deprase_utoc).          *)
(* Files are byte sequences; every offset is the one the source uses.      *)
(* The LootPaks tool and the installer's onAboutToRun callback are modelled *)
(* by the records loot and sb and have specifications of their own.        *)
(***************************************************************************)
EXTENDS Integers, Sequences, FiniteSets, TLC

VARIABLES disk, Force, container_ids, ucas_files, pos, pc, num, shown, log,
          parsed_data, gencall, loot, sb

vars == <<disk, Force, container_ids, ucas_files, pos, pc, num, shown, log,
          parsed_data, gencall, loot, sb>>

(* ------------------------------ bounds --------------------------------- *)
\* longest list of utoc paths one display() run collects
MaxFiles == 3
\* random candidates are drawn from 0..MaxId (a slice of the 64-bit range)
MaxId == 3

IdSpace == 0..MaxId

(* ------------------------- program constants --------------------------- *)
\* range(10) of generate_u64_id
Retries == 10
\* struct.calcsize("<16s BBH 9I Q 4I BBH I Q I I 5Q"), the entry table start
HeaderSize == 144
\* utoc_f.seek(56): offset of FIoContainerId in the header
ContainerIdOffset == 56
\* struct.calcsize("<QHBB")
EntrySize == 12
\* offset(5) + length(5) of one data-location record
LocSize == 10
\* one compressed-block record
BlockSize == 12
\* EIoChunkType.CONTAINER_HEADER
CONTAINER_HEADER == 10

EXPECTED_MAGIC == <<45, 61, 61, 45, 45, 61, 61, 45, 45, 61, 61, 45, 45, 61, 61, 45>>

(* --------------------------- byte helpers ------------------------------ *)
Min(a, b) == IF a < b THEN a ELSE b

\* Python data[a:b] for 0 <= a: clamped, never raises
Slice(data, a, b) == SubSeq(data, a + 1, Min(b, Len(data)))

Zeros(n) == [i \in 1..n |-> 0]

\* int.from_bytes(bytes, byteorder="little"); the empty string gives 0
RECURSIVE FromLE(_)
FromLE(bytes) ==
    IF bytes = <<>> THEN 0 ELSE Head(bytes) + 256 * FromLE(Tail(bytes))

\* int.from_bytes(bytes, byteorder="big")
RECURSIVE FromBE(_)
FromBE(bytes) ==
    IF bytes = <<>> THEN 0
    ELSE 256 * FromBE(SubSeq(bytes, 1, Len(bytes) - 1)) + bytes[Len(bytes)]

\* struct.pack("<Q", v) for n = 8: n bytes, least significant first
RECURSIVE LE(_, _)
LE(v, n) == IF n = 0 THEN <<>> ELSE <<v % 256>> \o LE(v \div 256, n - 1)

\* n bytes, most significant first
RECURSIVE BE(_, _)
BE(v, n) == IF n = 0 THEN <<>> ELSE BE(v \div 256, n - 1) \o <<v % 256>>

\* a write that cuts the file off behind the bytes written
WriteAt_Truncate(data, off, bytes) ==
    IF off >= Len(data)
    THEN data \o Zeros(off - Len(data)) \o bytes
    ELSE SubSeq(data, 1, off) \o bytes

\* f.seek(off); f.write(bytes) on a file opened "r+b": overwrites in place,
\* and a write past the end grows the file (the gap reads as zeros)
WriteAt(data, off, bytes) ==
    LET end == off + Len(bytes)
    IN IF off >= Len(data)
       THEN data \o Zeros(off - Len(data)) \o bytes
       ELSE SubSeq(data, 1, off) \o bytes \o SubSeq(data, end + 1, Len(data))

(* ------------------------ the files on disk ---------------------------- *)
\* one 144-byte header laid out as header_format unpacks it
MkHeader(magic, count, blockCount, blockSize, cid) ==
    magic \o Zeros(4) \o LE(HeaderSize, 4) \o LE(count, 4) \o LE(blockCount, 4)
          \o LE(BlockSize, 4) \o Zeros(8) \o LE(blockSize, 4) \o Zeros(8)
          \o LE(cid, 8) \o Zeros(80)

\* "<QHBB": identifier, two reserved fields, type tag
MkEntry(id, idtype) == LE(id, 8) \o <<0, 0, 0, idtype>>

\* 40-bit big-endian offset and length
MkLoc(off, len) == BE(off, 5) \o BE(len, 5)

\* 40-bit little-endian physical offset, 24-bit sizes, method index
MkBlock(phys, size, usize) == LE(phys, 5) \o LE(size, 3) \o LE(usize, 3) \o <<0>>

RECURSIVE Concat(_)
Concat(ss) == IF ss = <<>> THEN <<>> ELSE Head(ss) \o Concat(Tail(ss))

\* trailing directory index, never decoded by parse_utoc
Trailer == <<200, 201, 202, 203>>

\* compression block size of the sample containers
SampleBlockSize == 4 * 4

\* two compressed blocks: block 0 at physical offset 0, block 1 at 8
SampleBlocks == MkBlock(0, 8, SampleBlockSize) \o MkBlock(8, SampleBlockSize, SampleBlockSize)

\* entry i lives at logical offset SampleBlockSize * (i - 1)
SampleLocs(n) == Concat([i \in 1..n |-> MkLoc(SampleBlockSize * (i - 1), SampleBlockSize)])

MkUtoc(magic, blockSize, cid, entries) ==
    MkHeader(magic, Len(entries), 2, blockSize, cid)
       \o Concat([i \in 1..Len(entries) |-> MkEntry(entries[i][1], entries[i][2])])
       \o SampleLocs(Len(entries)) \o SampleBlocks \o Trailer

\* a utoc with its own data-location and compressed-block tables
MkUtocWith(magic, blockSize, cid, entries, locs, blocks) ==
    MkHeader(magic, Len(entries), Len(blocks), blockSize, cid)
       \o Concat([i \in 1..Len(entries) |-> MkEntry(entries[i][1], entries[i][2])])
       \o Concat([i \in 1..Len(locs) |-> MkLoc(locs[i][1], locs[i][2])])
       \o Concat([i \in 1..Len(blocks) |-> MkBlock(blocks[i][1], blocks[i][2], blocks[i][3])])
       \o Trailer

\* bulk data: 8 bytes of block 0, then the container-header payload that
\* starts with a copy of the container ID
MkUcas(cid) == <<9, 9, 9, 9, 9, 9, 9, 9>> \o LE(cid, 8) \o <<7, 7, 7, 7, 7, 7, 7, 7>>

BAD_MAGIC == <<45, 61, 61, 45, 45, 61, 61, 45, 45, 61, 61, 45, 45, 61, 61, 46>>

Pair(utoc, ucas, exists) == [utoc |-> utoc, ucas |-> ucas, ucasExists |-> exists]

\* a well-formed container with ID cid whose container-header entry is entry 2
GoodPair(cid) ==
    Pair(MkUtoc(EXPECTED_MAGIC, SampleBlockSize, cid, <<<<5, 2>>, <<cid, CONTAINER_HEADER>>>>),
         MkUcas(cid), TRUE)

\* container 2: a package entry that happens to carry the identifier 2 comes
\* before the container-header entry; the header payload is block 0 of the
\* ucas and the package's 4 bytes are block 1, the last bytes of the ucas
SameIdPair ==
    Pair(MkUtocWith(EXPECTED_MAGIC, SampleBlockSize, 2,
                    <<<<2, 2>>, <<2, CONTAINER_HEADER>>>>,
                    <<<<SampleBlockSize, 4>>, <<0, SampleBlockSize>>>>,
                    <<<<0, SampleBlockSize, SampleBlockSize>>, <<SampleBlockSize, 4, 4>>>>),
         LE(2, 8) \o <<7, 7, 7, 7, 7, 7, 7, 7>> \o <<9, 9, 9, 9>>, TRUE)

\* container 1 whose header payload starts 4 bytes into block 1: the copy of
\* the container ID sits at physical offset 8 + 4 of the ucas
UnalignedPair ==
    Pair(MkUtocWith(EXPECTED_MAGIC, SampleBlockSize, 1,
                    <<<<5, 2>>, <<1, CONTAINER_HEADER>>>>,
                    <<<<0, SampleBlockSize>>, <<SampleBlockSize + 4, 8>>>>,
                    <<<<0, 8, SampleBlockSize>>, <<8, SampleBlockSize, SampleBlockSize>>>>),
         <<9, 9, 9, 9, 9, 9, 9, 9>> \o <<7, 7, 7, 7>> \o LE(1, 8) \o <<7, 7, 7, 7>>, TRUE)

Paths == {"A1", "A2", "A3", "B", "M", "T", "N", "U", "R"}

\* the mod files of the model: three byte-identical copies of container 1,
\* a container 2, a wrong magic, a utoc cut inside its second entry, a utoc
\* without a container-header entry, a utoc whose ucas is missing, and a
\* container whose header payload is not block-aligned
InitialDisk ==
    [p \in Paths |->
       CASE p \in {"A1", "A2", "A3"} -> GoodPair(1)
         [] p = "B" -> SameIdPair
         [] p = "R" -> UnalignedPair
         [] p = "M" -> [GoodPair(1) EXCEPT !.utoc =
                           MkUtoc(BAD_MAGIC, SampleBlockSize, 1,
                                  <<<<5, 2>>, <<1, CONTAINER_HEADER>>>>)]
         [] p = "T" -> [GoodPair(1) EXCEPT !.utoc =
                           SubSeq(MkUtoc(EXPECTED_MAGIC, SampleBlockSize, 1,
                                         <<<<5, 2>>, <<6, 3>>, <<1, CONTAINER_HEADER>>>>),
                                  1, HeaderSize + EntrySize + 4)]
         [] p = "N" -> [GoodPair(1) EXCEPT !.utoc =
                           MkUtoc(EXPECTED_MAGIC, SampleBlockSize, 1,
                                  <<<<5, 2>>, <<6, 3>>>>)]
         [] p = "U" -> [GoodPair(1) EXCEPT !.ucasExists = FALSE]]

(* --------------------------- UTOCParser -------------------------------- *)
\* elements of container_ids: _parse_header appends the header's int,
\* generate_u64_id appends a ctypes c_uint64 object
PyInt(v) == [t |-> "int", v |-> v]
C_uint64(v) == [t |-> "c_uint64", v |-> v]

\* variant: a membership test that finds nothing, as if every element were
\* a ctypes object
PyIn_Blind(x, ids) == FALSE

\* Python "x in ids" for an int x: list membership compares with ==, an int
\* equals an int of the same value, and a c_uint64 object (ctypes defines no
\* __eq__) equals nothing but itself
PyIn(x, ids) == \E i \in 1..Len(ids) : ids[i].t = "int" /\ ids[i].v = x

\* generate_u64_id: try i of range(10) on the candidates drawn by uuid4
RECURSIVE generate_u64_id(_, _, _)
generate_u64_id(ids, draws, i) ==
    IF i > Retries
    THEN [raised |-> TRUE, id |-> 0, ids |-> ids, tries |-> Retries]
    ELSE IF ~PyIn(draws[i], ids)
         THEN [raised |-> FALSE, id |-> draws[i],
               ids |-> Append(ids, C_uint64(draws[i])), tries |-> i]
         ELSE generate_u64_id(ids, draws, i + 1)

\* header fields read by struct.unpack(header_format, data[:144])
HeaderMagic(data) == Slice(data, 0, 16)
TocEntryCount(data) == FromLE(Slice(data, 24, 28))
CompressionBlockSize(data) == FromLE(Slice(data, 44, 48))
FIoContainerId(data) == FromLE(Slice(data, ContainerIdOffset, ContainerIdOffset + 8))

\* _parse_header without the append of line 337
_parse_header_NoRecord(data, ids) ==
    IF Len(data) < HeaderSize
    THEN [err |-> "struct.error", changed |-> FALSE, ids |-> ids]
    ELSE IF HeaderMagic(data) # EXPECTED_MAGIC
    THEN [err |-> "AttributeError", changed |-> FALSE, ids |-> ids]
    ELSE IF PyIn(FIoContainerId(data), ids)
    THEN [err |-> "none", changed |-> TRUE, ids |-> ids]
    ELSE [err |-> "none", changed |-> FALSE, ids |-> ids]

\* _parse_header without the magic validation of lines 329-332
_parse_header_NoMagic(data, ids) ==
    IF Len(data) < HeaderSize
    THEN [err |-> "struct.error", changed |-> FALSE, ids |-> ids]
    ELSE IF PyIn(FIoContainerId(data), ids)
    THEN [err |-> "none", changed |-> TRUE, ids |-> ids]
    ELSE [err |-> "none", changed |-> FALSE,
          ids |-> Append(ids, PyInt(FIoContainerId(data)))]

\* _parse_header: err is the exception that leaves it, changed its result
_parse_header(data, ids) ==
    IF Len(data) < HeaderSize
    THEN [err |-> "struct.error", changed |-> FALSE, ids |-> ids]
    ELSE IF HeaderMagic(data) # EXPECTED_MAGIC
    THEN [err |-> "AttributeError", changed |-> FALSE, ids |-> ids]
    ELSE IF PyIn(FIoContainerId(data), ids)
    THEN [err |-> "none", changed |-> TRUE, ids |-> ids]
    ELSE [err |-> "none", changed |-> FALSE,
          ids |-> Append(ids, PyInt(FIoContainerId(data)))]

\* the for loop of parse_utoc over the entry table of file_data
RECURSIVE ScanEntries(_, _, _, _)
ScanEntries(data, count, cid, index) ==
    IF index >= count
    THEN [err |-> "none", found |-> FALSE, idtype |-> 0,
          index |-> IF count = 0 THEN 0 ELSE count - 1]
    ELSE LET rec == Slice(data, HeaderSize + index * EntrySize,
                          HeaderSize + (index + 1) * EntrySize)
         IN IF Len(rec) # EntrySize
            THEN [err |-> "struct.error", found |-> FALSE, idtype |-> 0, index |-> index]
            ELSE IF FromLE(SubSeq(rec, 1, 8)) = cid
            THEN [err |-> "none", found |-> TRUE, idtype |-> rec[12], index |-> index]
            ELSE ScanEntries(data, count, cid, index + 1)

\* offset of the data-location record read for entry index
LocOffset(data, index) == HeaderSize + TocEntryCount(data) * EntrySize + index * LocSize

\* the 40-bit big-endian logical offset of that record
LogicalOffset(data, index) ==
    FromBE(Slice(data, LocOffset(data, index), LocOffset(data, index) + 5))

\* offset of the compressed-block record FirstBlockIndex
BlockOffset(data, FirstBlockIndex) ==
    HeaderSize + TocEntryCount(data) * EntrySize + TocEntryCount(data) * LocSize
       + FirstBlockIndex * BlockSize

\* the 40-bit little-endian physical offset of that record
PhysicalOffset(data, FirstBlockIndex) ==
    FromLE(Slice(data, BlockOffset(data, FirstBlockIndex),
                 BlockOffset(data, FirstBlockIndex) + 5))

\* what one parse_utoc call did: the files and the registry it leaves, the
\* value returned ("none" when an exception leaves the call), the exception,
\* the result of _parse_header, whether generate_u64_id returned an ID and
\* which, the result of the entry loop, and the (file, offset) of each write
Outcome(pair, ids, ret, err, changed, assigned, new, scan, writes, handles) ==
    [pair |-> pair, ids |-> ids, ret |-> ret, err |-> err, changed |-> changed,
     assigned |-> assigned, new |-> new, found |-> scan.found,
     idtype |-> scan.idtype, index |-> scan.index, writes |-> writes,
     handles |-> handles]

\* variant: open() and close() without a with block, so that the handle is
\* still open when the block is left
UtocScope_Leak(inner) == <<"open utoc">> \o inner

\* with open(utoc_file, "r+b") as utoc_f: the handle events of the block,
\* the handle is released on every way out of it
UtocScope(inner) == <<"open utoc">> \o inner \o <<"close utoc">>

\* with open(ucas_file, "r+b") as ucas_f: open() raises when the file is
\* missing and no handle exists then
UcasScope(exists) == IF exists THEN <<"open ucas", "close ucas">> ELSE <<>>

NoScan == [err |-> "none", found |-> FALSE, idtype |-> 0, index |-> 0]

\* the body of parse_utoc once a new ID is to be assigned (lines 151-216):
\* every write lands on disk as soon as it is made, an exception closes the
\* files and keeps what was written
Reassign(pair, ids, changed, draws) ==
    LET data == pair.utoc
        cid == FIoContainerId(data)
        gen == generate_u64_id(ids, draws, 1)
        new == gen.id
        utoc1 == WriteAt(data, ContainerIdOffset, LE(new, 8))
        w1 == <<<<"utoc", ContainerIdOffset>>>>
        scan == ScanEntries(data, TocEntryCount(data), cid, 0)
        utoc2 == IF scan.found
                 THEN WriteAt(utoc1, HeaderSize + scan.index * EntrySize, LE(new, 8))
                 ELSE utoc1
        w2 == IF scan.found
              THEN Append(w1, <<"utoc", HeaderSize + scan.index * EntrySize>>)
              ELSE w1
        offset == LogicalOffset(data, scan.index)
        FirstBlockIndex == offset \div CompressionBlockSize(data)
        ucasOffset == PhysicalOffset(data, FirstBlockIndex)
    IN IF gen.raised
       THEN Outcome(pair, gen.ids, "none", "ValueError", changed, FALSE, 0, NoScan, <<>>,
                    UtocScope(<<>>))
       ELSE IF scan.err # "none"
       THEN Outcome([pair EXCEPT !.utoc = utoc1], gen.ids, "none", scan.err,
                    changed, TRUE, new, scan, w1, UtocScope(<<>>))
       ELSE IF CompressionBlockSize(data) = 0
       THEN Outcome([pair EXCEPT !.utoc = utoc2], gen.ids, "none",
                    "ZeroDivisionError", changed, TRUE, new, scan, w2,
                    UtocScope(<<>>))
       ELSE IF ~pair.ucasExists
       THEN Outcome([pair EXCEPT !.utoc = utoc2], gen.ids, "none",
                    "FileNotFoundError", changed, TRUE, new, scan, w2,
                    UtocScope(UcasScope(FALSE)))
       ELSE Outcome([pair EXCEPT !.utoc = utoc2,
                                 !.ucas = WriteAt(pair.ucas, ucasOffset, LE(new, 8))],
                    gen.ids, "True", "none", changed, TRUE, new, scan,
                    Append(w2, <<"ucas", ucasOffset>>), UtocScope(UcasScope(TRUE)))

\* variant: the Force attribute is not consulted, only a collision reassigns
parse_utoc_NoForce(pair, ids, force, draws) ==
    LET hdr == _parse_header(pair.utoc, ids)
    IN IF hdr.err # "none"
       THEN Outcome(pair, hdr.ids, "none", hdr.err, FALSE, FALSE, 0, NoScan, <<>>,
                    UtocScope(<<>>))
       ELSE IF hdr.changed
       THEN Reassign(pair, hdr.ids, hdr.changed, draws)
       ELSE Outcome(pair, hdr.ids, "False", "none", FALSE, FALSE, 0, NoScan, <<>>,
                    UtocScope(<<>>))

\* parse_utoc on a path that ends with .utoc
parse_utoc(pair, ids, force, draws) ==
    LET hdr == _parse_header(pair.utoc, ids)
    IN IF hdr.err # "none"
       THEN Outcome(pair, hdr.ids, "none", hdr.err, FALSE, FALSE, 0, NoScan, <<>>,
                    UtocScope(<<>>))
       ELSE IF hdr.changed \/ force
       THEN Reassign(pair, hdr.ids, hdr.changed, draws)
       ELSE Outcome(pair, hdr.ids, "False", "none", FALSE, FALSE, 0, NoScan, <<>>,
                    UtocScope(<<>>))

\* whether the call reaches generate_u64_id
CallsGenerate(pair, ids, force) ==
    LET hdr == _parse_header(pair.utoc, ids)
    IN hdr.err = "none" /\ (hdr.changed \/ force)

(* -------- UTOCParser of the standalone script (src/Other) -------------- *)
\* generate_u64_id of the script (lines 123-130)
RECURSIVE generate_u64_id_exe(_, _, _)
generate_u64_id_exe(ids, draws, i) ==
    IF i > Retries
    THEN [raised |-> TRUE, id |-> 0, ids |-> ids, tries |-> Retries]
    ELSE IF ~PyIn(draws[i], ids)
         THEN [raised |-> FALSE, id |-> draws[i],
               ids |-> Append(ids, C_uint64(draws[i])), tries |-> i]
         ELSE generate_u64_id_exe(ids, draws, i + 1)

\* _parse_header of the script (lines 287-338): unpack, magic check,
\* registry test
_parse_header_exe(data, ids) ==
    IF Len(data) < HeaderSize
    THEN [err |-> "struct.error", changed |-> FALSE, ids |-> ids]
    ELSE IF HeaderMagic(data) # EXPECTED_MAGIC
    THEN [err |-> "AttributeError", changed |-> FALSE, ids |-> ids]
    ELSE IF PyIn(FIoContainerId(data), ids)
    THEN [err |-> "none", changed |-> TRUE, ids |-> ids]
    ELSE [err |-> "none", changed |-> FALSE,
          ids |-> Append(ids, PyInt(FIoContainerId(data)))]

\* the for loop of the script's parse_utoc over the entry table (154-168)
RECURSIVE ScanEntries_exe(_, _, _, _)
ScanEntries_exe(data, count, cid, index) ==
    IF index >= count
    THEN [err |-> "none", found |-> FALSE, idtype |-> 0,
          index |-> IF count = 0 THEN 0 ELSE count - 1]
    ELSE LET rec == Slice(data, HeaderSize + index * EntrySize,
                          HeaderSize + (index + 1) * EntrySize)
         IN IF Len(rec) # EntrySize
            THEN [err |-> "struct.error", found |-> FALSE, idtype |-> 0, index |-> index]
            ELSE IF FromLE(SubSeq(rec, 1, 8)) = cid
            THEN [err |-> "none", found |-> TRUE, idtype |-> rec[12], index |-> index]
            ELSE ScanEntries_exe(data, count, cid, index + 1)

\* the body of the script's parse_utoc once a new ID is to be assigned
\* (lines 151-216); the with blocks are those of lines 140 and 212
Reassign_exe(pair, ids, changed, draws) ==
    LET data == pair.utoc
        cid == FIoContainerId(data)
        gen == generate_u64_id_exe(ids, draws, 1)
        new == gen.id
        utoc1 == WriteAt(data, ContainerIdOffset, LE(new, 8))
        w1 == <<<<"utoc", ContainerIdOffset>>>>
        scan == ScanEntries_exe(data, TocEntryCount(data), cid, 0)
        utoc2 == IF scan.found
                 THEN WriteAt(utoc1, HeaderSize + scan.index * EntrySize, LE(new, 8))
                 ELSE utoc1
        w2 == IF scan.found
              THEN Append(w1, <<"utoc", HeaderSize + scan.index * EntrySize>>)
              ELSE w1
        offset == LogicalOffset(data, scan.index)
        FirstBlockIndex == offset \div CompressionBlockSize(data)
        ucasOffset == PhysicalOffset(data, FirstBlockIndex)
    IN IF gen.raised
       THEN Outcome(pair, gen.ids, "none", "ValueError", changed, FALSE, 0, NoScan, <<>>,
                    UtocScope(<<>>))
       ELSE IF scan.err # "none"
       THEN Outcome([pair EXCEPT !.utoc = utoc1], gen.ids, "none", scan.err,
                    changed, TRUE, new, scan, w1, UtocScope(<<>>))
       ELSE IF CompressionBlockSize(data) = 0
       THEN Outcome([pair EXCEPT !.utoc = utoc2], gen.ids, "none",
                    "ZeroDivisionError", changed, TRUE, new, scan, w2,
                    UtocScope(<<>>))
       ELSE IF ~pair.ucasExists
       THEN Outcome([pair EXCEPT !.utoc = utoc2], gen.ids, "none",
                    "FileNotFoundError", changed, TRUE, new, scan, w2,
                    UtocScope(UcasScope(FALSE)))
       ELSE Outcome([pair EXCEPT !.utoc = utoc2,
                                 !.ucas = WriteAt(pair.ucas, ucasOffset, LE(new, 8))],
                    gen.ids, "True", "none", changed, TRUE, new, scan,
                    Append(w2, <<"ucas", ucasOffset>>), UtocScope(UcasScope(TRUE)))

\* variant: the script's parser run with the value its constructor gives
\* to Force (line 111), whatever flag was asked for
parse_utoc_exe_OwnForce(pair, ids, force, draws) ==
    LET hdr == _parse_header_exe(pair.utoc, ids)
    IN IF hdr.err # "none"
       THEN Outcome(pair, hdr.ids, "none", hdr.err, FALSE, FALSE, 0, NoScan, <<>>,
                    UtocScope(<<>>))
       ELSE Reassign_exe(pair, hdr.ids, hdr.changed, draws)

\* parse_utoc of the script: the return statements are inside the with
\* block of the utoc file (lines 236-243), which closes the file on return
parse_utoc_exe(pair, ids, force, draws) ==
    LET hdr == _parse_header_exe(pair.utoc, ids)
    IN IF hdr.err # "none"
       THEN Outcome(pair, hdr.ids, "none", hdr.err, FALSE, FALSE, 0, NoScan, <<>>,
                    UtocScope(<<>>))
       ELSE IF hdr.changed \/ force
       THEN Reassign_exe(pair, hdr.ids, hdr.changed, draws)
       ELSE Outcome(pair, hdr.ids, "False", "none", FALSE, FALSE, 0, NoScan, <<>>,
                    UtocScope(<<>>))

(* ----------------- StellarBlade_Chunk_Id_Patcher ----------------------- *)
\* the lists of utoc paths _collect_UcasFiles may hand to deprase_utoc
Batches == UNION {[1..n -> Paths] : n \in 0..MaxFiles}

\* the ten values uuid4 yields in one generate_u64_id call: k times a, then
\* b, for no repeated draw, one repeated draw, and ten equal draws
DrawSeqs ==
    {[i \in 1..Retries |-> IF i <= k THEN a ELSE b] :
        a \in IdSpace, b \in IdSpace, k \in {0, 1, Retries}}

NoDraws == [i \in 1..Retries |-> 0]

\* one sequence of DrawSeqs for each result generate_u64_id(ids) can have:
\* parse_utoc uses the candidates through that result only
DistinctDraws(ids) ==
    {CHOOSE d \in DrawSeqs : generate_u64_id(ids, d, 1) = g :
        g \in {generate_u64_id(ids, d, 1) : d \in DrawSeqs}}

\* one record per parse_utoc call, kept for the properties
LogEntry(p, before, idsBefore, r) ==
    [path |-> p, before |-> before, after |-> r.pair, idsBefore |-> idsBefore,
     idsAfter |-> r.ids, ret |-> r.ret, err |-> r.err, changed |-> r.changed,
     assigned |-> r.assigned, new |-> r.new, found |-> r.found,
     idtype |-> r.idtype, index |-> r.index, writes |-> r.writes,
     handles |-> r.handles]

\* no generate_u64_id call is being examined on its own
NoCall == [state |-> "none", ids |-> <<>>, draws |-> NoDraws,
           out |-> [raised |-> FALSE, id |-> 0, ids |-> <<>>, tries |-> 0]]

\* the LootPaks tool and the installer's callback are not running
NoLoot == [pc |-> "off", game |-> {}, mods |-> <<>>, names |-> <<>>,
           initial |-> 0, final |-> 0, k |-> 0, shown |-> 0]
NoSb == [pc |-> "off", exe |-> <<>>, mods |-> <<>>, renamed |-> <<>>,
         k |-> 0, Logic |-> FALSE, ret |-> "none"]

Init ==
    /\ disk = InitialDisk
    /\ Force \in BOOLEAN
    /\ container_ids = <<>>
    /\ ucas_files = <<>>
    /\ pos = 0
    /\ pc = "idle"
    /\ num = 0
    /\ shown = [total |-> 0, num |-> 0]
    /\ log = <<>>
    /\ parsed_data = <<>>
    /\ gencall = NoCall
    /\ loot = NoLoot
    /\ sb = NoSb

\* variant: deprase_utoc reuses one parser for every batch, so the registry
\* of the previous batch is kept
Collect_KeepRegistry(from, lists) ==
    /\ pc \in from
    /\ \E list \in lists : ucas_files' = ucas_files \o list
    /\ parsed_data' = <<>>
    /\ pos' = 0
    /\ pc' = "loop"
    /\ UNCHANGED <<disk, Force, container_ids, num, shown, log, gencall, loot, sb>>

\* display() called while pc is in from, up to the construction of the
\* parser in deprase_utoc: the collected paths are appended to ucas_files
\* and the new UTOCParser starts with empty container_ids and parsed_data
Collect(from, lists) ==
    /\ pc \in from
    /\ \E list \in lists : ucas_files' = ucas_files \o list
    /\ container_ids' = <<>>
    /\ parsed_data' = <<>>
    /\ pos' = 0
    /\ pc' = "loop"
    /\ UNCHANGED <<disk, Force, num, shown, log, gencall, loot, sb>>

\* the first display() of the tool
DisplayCollect == Collect({"idle"}, Batches)

\* variant: the try/except that is commented out in parse_utoc is active, so
\* an exception is logged and the loop goes on to the next file
DepraseStep_Swallow ==
    /\ pc = "loop"
    /\ pos < Len(ucas_files)
    /\ LET p == ucas_files[pos + 1]
       IN \E draws \in (IF CallsGenerate(disk[p], container_ids, Force)
                        THEN DrawSeqs ELSE {NoDraws}) :
            \E r \in {parse_utoc(disk[p], container_ids, Force, draws)} :
               /\ disk' = [disk EXCEPT ![p] = r.pair]
               /\ container_ids' = r.ids
               /\ log' = Append(log, LogEntry(p, disk[p], container_ids, r))
               /\ pc' = "loop"
               /\ pos' = pos + 1
               /\ num' = IF r.ret = "True" THEN num + 1 ELSE num
    /\ UNCHANGED <<Force, ucas_files, shown, parsed_data, gencall, loot, sb>>

\* variant: the loop does not move on to the next element of the list
DepraseStep_NoAdvance ==
    /\ pc = "loop"
    /\ pos < Len(ucas_files)
    /\ LET p == ucas_files[pos + 1]
       IN \E draws \in (IF CallsGenerate(disk[p], container_ids, Force)
                        THEN DrawSeqs ELSE {NoDraws}) :
            \E r \in {parse_utoc(disk[p], container_ids, Force, draws)} :
               /\ disk' = [disk EXCEPT ![p] = r.pair]
               /\ container_ids' = r.ids
               /\ log' = Append(log, LogEntry(p, disk[p], container_ids, r))
               /\ pc' = IF r.err # "none" THEN "raised" ELSE "loop"
               /\ num' = IF r.ret = "True" THEN num + 1 ELSE num
    /\ UNCHANGED <<Force, ucas_files, pos, shown, parsed_data, gencall, loot, sb>>

\* one iteration of the loop of deprase_utoc: parse_utoc(file), then the
\* count; an exception leaves deprase_utoc and display
DepraseStep ==
    /\ pc = "loop"
    /\ pos < Len(ucas_files)
    /\ LET p == ucas_files[pos + 1]
       IN \E draws \in (IF CallsGenerate(disk[p], container_ids, Force)
                        THEN DistinctDraws(_parse_header(disk[p].utoc, container_ids).ids)
                        ELSE {NoDraws}) :
            \E r \in {parse_utoc(disk[p], container_ids, Force, draws)} :
               /\ disk' = [disk EXCEPT ![p] = r.pair]
               /\ container_ids' = r.ids
               /\ log' = Append(log, LogEntry(p, disk[p], container_ids, r))
               /\ IF r.err # "none"
                  THEN /\ pc' = "raised"
                       /\ UNCHANGED <<pos, num>>
                  ELSE /\ pc' = "loop"
                       /\ pos' = pos + 1
                       /\ num' = IF r.ret = "True" THEN num + 1 ELSE num
    /\ UNCHANGED <<Force, ucas_files, shown, parsed_data, gencall, loot, sb>>

\* the end of display(): the message box, then the reset
DisplayFinish ==
    /\ pc = "loop"
    /\ pos = Len(ucas_files)
    /\ shown' = [total |-> Len(ucas_files), num |-> num]
    /\ num' = 0
    /\ ucas_files' = <<>>
    /\ pc' = "done"
    /\ UNCHANGED <<disk, Force, container_ids, pos, log, parsed_data, gencall, loot, sb>>

Next == DisplayCollect \/ DepraseStep \/ DisplayFinish

Spec == Init /\ [][Next]_vars

(* ------------- display() invoked again after it ended ----------------- *)
\* the paths and lists of the repeated runs
ShortPaths == {"A1", "M"}
ShortBatches == UNION {[1..n -> ShortPaths] : n \in 0..2}

\* parse_utoc calls made by all the runs together
MaxCalls == MaxFiles + 1

\* display() on the idle tool, after a finished run, or after a run that an
\* exception left (ucas_files and num are then still what the run left)
Redisplay ==
    Collect({"idle", "done", "raised"},
            {l \in ShortBatches : Len(log) + Len(ucas_files) + Len(l) <= MaxCalls})

NextRedisplay == Redisplay \/ DepraseStep \/ DisplayFinish

SpecRedisplay == Init /\ [][NextRedisplay]_vars

(* ------------- one display() run under fair scheduling ---------------- *)
\* the lists of the runs whose end is checked
TermBatches == UNION {[1..n -> Paths] : n \in 0..(MaxFiles - 1)}

TermCollect == Collect({"idle"}, TermBatches)

NextTerm == TermCollect \/ DepraseStep \/ DisplayFinish

\* DepraseStep can be taken exactly in these states: parse_utoc gives an
\* outcome for every file and every step appends to log
DepraseEnabled == pc = "loop" /\ pos < Len(ucas_files)

\* display() is one sequential call: once it has started, the loop of
\* deprase_utoc and the end of display() run whenever they can. The second
\* conjunct is weak fairness of DepraseStep, written out with its enabling
\* condition.
SpecTerm ==
    /\ Init
    /\ [][NextTerm]_vars
    /\ ([]<>(~DepraseEnabled) \/ []<><<DepraseStep>>_vars)
    /\ WF_vars(DisplayFinish)

(* -------------- a container whose block size field is 0 --------------- *)
\* container 1 with CompressionBlockSize 0 in its header
ZeroBlockPair ==
    Pair(MkUtoc(EXPECTED_MAGIC, 0, 1, <<<<5, 2>>, <<1, CONTAINER_HEADER>>>>),
         MkUcas(1), TRUE)

\* the mod files with the second copy of container 1 replaced by it
ZeroDisk == [InitialDisk EXCEPT !["A2"] = ZeroBlockPair]

ZeroBatches == UNION {[1..n -> {"A1", "A2"}] : n \in 0..MaxFiles}

InitZero ==
    /\ disk = ZeroDisk
    /\ Force \in BOOLEAN
    /\ container_ids = <<>>
    /\ ucas_files = <<>>
    /\ pos = 0
    /\ pc = "idle"
    /\ num = 0
    /\ shown = [total |-> 0, num |-> 0]
    /\ log = <<>>
    /\ parsed_data = <<>>
    /\ gencall = NoCall
    /\ loot = NoLoot
    /\ sb = NoSb

ZeroCollect == Collect({"idle"}, ZeroBatches)

NextZero == ZeroCollect \/ DepraseStep \/ DisplayFinish

SpecZero == InitZero /\ [][NextZero]_vars

(* ---------------- generate_u64_id called on its own -------------------- *)
\* registries generate_u64_id can be handed: the first element is a header
\* ID, header IDs are pairwise different, and a generated ID differs from
\* the header IDs recorded before it
IsRegistry(r) ==
    /\ r[1].t = "int"
    /\ \A i \in 1..Len(r), j \in 1..Len(r) :
          (j < i /\ r[j].t = "int") => r[j].v # r[i].v

Registries ==
    {r \in UNION {[1..n -> {PyInt(v) : v \in IdSpace} \cup {C_uint64(v) : v \in IdSpace}] :
                     n \in 1..MaxFiles} : IsRegistry(r)}

InitGen ==
    /\ disk = InitialDisk
    /\ Force = FALSE
    /\ container_ids = <<>>
    /\ ucas_files = <<>>
    /\ pos = 0
    /\ pc = "idle"
    /\ num = 0
    /\ shown = [total |-> 0, num |-> 0]
    /\ log = <<>>
    /\ parsed_data = <<>>
    /\ \E r \in Registries, d \in DrawSeqs :
          gencall = [NoCall EXCEPT !.state = "called", !.ids = r, !.draws = d]
    /\ loot = NoLoot
    /\ sb = NoSb

\* one call generate_u64_id(ids) to its return or its raise
GenerateCall ==
    /\ gencall.state = "called"
    /\ gencall' = [gencall EXCEPT !.state = "returned",
                                  !.out = generate_u64_id(gencall.ids, gencall.draws, 1)]
    /\ UNCHANGED <<disk, Force, container_ids, ucas_files, pos, pc, num, shown,
                   log, parsed_data, loot, sb>>

NextGen == GenerateCall

SpecGen == InitGen /\ [][NextGen]_vars

(* ------------------------------ LootPaks ------------------------------- *)
\* mods of the profile and .pak files in the root of one mod folder
MaxLootMods == 2
MaxPaks == 2

Max(S) == CHOOSE x \in S : \A y \in S : y <= x

\* decimal digits of n, most significant first
RECURSIVE Digits(_)
Digits(n) == IF n < 10 THEN <<n>> ELSE Digits(n \div 10) \o <<n % 10>>

\* f"{current_number:03d}": padded with zeros to three digits, longer when
\* the number needs more
Format03d(n) ==
    IF Len(Digits(n)) >= 3 THEN Digits(n) ELSE Zeros(3 - Len(Digits(n))) \o Digits(n)

\* int(match.group(1))
RECURSIVE ToInt(_)
ToInt(d) ==
    IF d = <<>> THEN 0 ELSE 10 * ToInt(SubSeq(d, 1, Len(d) - 1)) + d[Len(d)]

\* a file re_chunk_000.pak.sub_000.pak.patch_<digits>.pak
PatchFile(d) == [stem |-> "patch", digits |-> d]
\* a .pak file under the name it had before the run, and under the
\* uuid4().hex name of _create_temp_mapping
OrigFile == [stem |-> "orig", digits |-> <<>>]
TempFile == [stem |-> "temp", digits |-> <<>>]

\* _file_pattern.fullmatch(file): the patch name with exactly three digits
Matches(f) == f.stem = "patch" /\ Len(f.digits) = 3

\* findStartNumber: one more than the largest number of a matching file
\* under the game directory, 1 when there is none
findStartNumber(game) ==
    Max({ToInt(f.digits) : f \in {g \in game : Matches(g)}} \cup {0}) + 1

\* variant: the number is consumed whether or not the rename succeeded
RenameAll_CountFailures(order, ok2, t, current, names) ==
    LET RECURSIVE Go(_, _, _)
        Go(tt, cur, nm) ==
            IF tt > Len(order) THEN [names |-> nm, current |-> cur]
            ELSE IF order[tt] \in ok2
                 THEN Go(tt + 1, cur + 1,
                         [nm EXCEPT ![order[tt]] = PatchFile(Format03d(cur))])
                 ELSE Go(tt + 1, cur + 1, nm)
    IN Go(t, current, names)

\* the loop of processPakFiles over sorted(temp_map.keys()) from position t:
\* order lists the files in the order of their temporary names, ok2 holds
\* the files whose rename to the target name succeeds
RECURSIVE RenameAll(_, _, _, _, _)
RenameAll(order, ok2, t, current, names) ==
    IF t > Len(order) THEN [names |-> names, current |-> current]
    ELSE IF order[t] \in ok2
         THEN RenameAll(order, ok2, t + 1, current + 1,
                        [names EXCEPT ![order[t]] = PatchFile(Format03d(current))])
         ELSE RenameAll(order, ok2, t + 1, current, names)

\* _create_temp_mapping: nothing for a folder with a .NotLOOT file, else the
\* files of ok1 get their temporary name and the others keep their name
TempMapping(mod, names, ok1) ==
    IF mod.notloot THEN names
    ELSE [j \in 1..Len(names) |-> IF j \in ok1 THEN TempFile ELSE names[j]]

\* the orders sorted() can give to the temporary names of the files in S
Orders(S) ==
    {o \in [1..Cardinality(S) -> S] : \A a, b \in 1..Cardinality(S) : a # b => o[a] # o[b]}

\* the mods of a profile: not active, not a directory, holding .NotLOOT,
\* and active folders with 0..MaxPaks .pak files in their root
LootModKinds ==
    {[active |-> FALSE, isdir |-> TRUE, notloot |-> FALSE, paks |-> 1],
     [active |-> TRUE, isdir |-> FALSE, notloot |-> FALSE, paks |-> 0],
     [active |-> TRUE, isdir |-> TRUE, notloot |-> TRUE, paks |-> 1]}
       \cup {[active |-> TRUE, isdir |-> TRUE, notloot |-> FALSE, paks |-> n] :
                n \in 0..MaxPaks}

\* files of the game directory: patch 001, patch 003, and a name with two
\* digits that the pattern does not match
GameFiles == {PatchFile(<<0, 0, 1>>), PatchFile(<<0, 0, 3>>), PatchFile(<<0, 7>>)}

InitLoot ==
    /\ disk = InitialDisk
    /\ Force = FALSE
    /\ container_ids = <<>>
    /\ ucas_files = <<>>
    /\ pos = 0
    /\ pc = "idle"
    /\ num = 0
    /\ shown = [total |-> 0, num |-> 0]
    /\ log = <<>>
    /\ parsed_data = <<>>
    /\ gencall = NoCall
    /\ sb = NoSb
    /\ \E game \in SUBSET GameFiles :
       \E mods \in UNION {[1..n -> LootModKinds] : n \in 0..MaxLootMods} :
          loot = [NoLoot EXCEPT
                     !.pc = "idle", !.game = game, !.mods = mods,
                     !.names = [i \in 1..Len(mods) |->
                                   [j \in 1..mods[i].paks |-> OrigFile]]]

\* display() up to the loop over the mods
LootDisplay ==
    /\ loot.pc = "idle"
    /\ loot' = [loot EXCEPT !.pc = "loop",
                            !.initial = findStartNumber(loot.game),
                            !.final = findStartNumber(loot.game)]
    /\ UNCHANGED <<disk, Force, container_ids, ucas_files, pos, pc, num, shown,
                   log, parsed_data, gencall, sb>>

\* one iteration of the loop of display(): _should_process_mod, then
\* _handle_single_mod and processPakFiles with both rounds of renames
LootMod ==
    /\ loot.pc = "loop"
    /\ loot.k < Len(loot.mods)
    /\ LET i == loot.k + 1
           mod == loot.mods[i]
       IN IF ~mod.active \/ ~mod.isdir
          THEN loot' = [loot EXCEPT !.k = i]
          ELSE \E ok1 \in (IF mod.notloot THEN {{}} ELSE SUBSET (1..mod.paks)) :
               \E order \in Orders(ok1) :
               \E ok2 \in SUBSET ok1 :
               \E r \in {RenameAll(order, ok2, 1, loot.final,
                                   TempMapping(mod, loot.names[i], ok1))} :
                  loot' = [loot EXCEPT !.k = i, !.final = r.current,
                                       !.names[i] = r.names]
    /\ UNCHANGED <<disk, Force, container_ids, ucas_files, pos, pc, num, shown,
                   log, parsed_data, gencall, sb>>

\* the end of display(): the dialog with final_number - initial_number
LootFinish ==
    /\ loot.pc = "loop"
    /\ loot.k = Len(loot.mods)
    /\ loot' = [loot EXCEPT !.pc = "done", !.shown = loot.final - loot.initial]
    /\ UNCHANGED <<disk, Force, container_ids, ucas_files, pos, pc, num, shown,
                   log, parsed_data, gencall, sb>>

NextLoot == LootDisplay \/ LootMod \/ LootFinish

SpecLoot == InitLoot /\ [][NextLoot]_vars

(* --------------------- SB_Installer._onAboutToRun ---------------------- *)
\* mods of the profile the callback scans
MaxSbMods == 3

\* os.path.basename(executable) of a path given by its components
Basename(path) == IF path = <<>> THEN "" ELSE path[Len(path)]

Executables ==
    {<<"game", "SB.exe">>, <<"game", "SB", "Binaries", "Win64", "SB-Win64-Shipping.exe">>,
     <<"tools", "Explorer++.exe">>}

\* mod.startswith(prefix): mods are given by the marker prefix their name
\* starts with, "" for a name that starts with neither
StartsWith(mod, prefix) == mod.prefix = prefix

SbMod(prefix, active, hasMods, hasLogic) ==
    [prefix |-> prefix, active |-> active, hasMods |-> hasMods, hasLogic |-> hasLogic]

\* the two separators, a mod whose own name starts with LogicModsStart, and
\* ordinary mods: active with a ~mods folder, the same with a LogicMods
\* folder beside it, active without ~mods, and not active
SbModKinds ==
    {SbMod("LogicModsStart", FALSE, FALSE, FALSE),
     SbMod("LogicModsStart", TRUE, TRUE, FALSE),
     SbMod("LogicModsEnd", FALSE, FALSE, FALSE),
     SbMod("", TRUE, TRUE, FALSE),
     SbMod("", TRUE, TRUE, TRUE),
     SbMod("", TRUE, FALSE, FALSE),
     SbMod("", FALSE, TRUE, FALSE)}

InitSb ==
    /\ disk = InitialDisk
    /\ Force = FALSE
    /\ container_ids = <<>>
    /\ ucas_files = <<>>
    /\ pos = 0
    /\ pc = "idle"
    /\ num = 0
    /\ shown = [total |-> 0, num |-> 0]
    /\ log = <<>>
    /\ parsed_data = <<>>
    /\ gencall = NoCall
    /\ loot = NoLoot
    /\ \E exe \in Executables :
       \E mods \in UNION {[1..n -> SbModKinds] : n \in 0..MaxSbMods} :
          sb = [NoSb EXCEPT !.pc = "called", !.exe = exe, !.mods = mods,
                            !.renamed = [i \in 1..Len(mods) |-> FALSE]]

\* _onAboutToRun up to the loop: the test of the executable's name
SbCall ==
    /\ sb.pc = "called"
    /\ sb' = IF Basename(sb.exe) \in {"SB.exe", "SB-Win64-Shipping.exe"}
             THEN [sb EXCEPT !.pc = "loop", !.Logic = FALSE, !.k = 0]
             ELSE [sb EXCEPT !.pc = "done", !.ret = "True"]
    /\ UNCHANGED <<disk, Force, container_ids, ucas_files, pos, pc, num, shown,
                   log, parsed_data, gencall, loot>>

\* one iteration of the loop over allModsByProfilePriority(); os.rename
\* onto an existing LogicMods folder raises on Windows, and on POSIX unless
\* that folder is empty, and nothing catches the exception
SbIterate ==
    /\ sb.pc = "loop"
    /\ sb.k < Len(sb.mods)
    /\ LET i == sb.k + 1
           mod == sb.mods[i]
       IN IF StartsWith(mod, "LogicModsStart")
          THEN sb' = [sb EXCEPT !.Logic = TRUE, !.k = i]
          ELSE IF StartsWith(mod, "LogicModsEnd")
          THEN sb' = [sb EXCEPT !.pc = "done", !.ret = "True"]
          ELSE IF sb.Logic /\ mod.active /\ mod.hasMods
          THEN \E ok \in (IF mod.hasLogic THEN BOOLEAN ELSE {TRUE}) :
                  sb' = IF ok
                        THEN [sb EXCEPT !.k = i, !.renamed[i] = TRUE]
                        ELSE [sb EXCEPT !.pc = "raised"]
          ELSE sb' = [sb EXCEPT !.k = i]
    /\ UNCHANGED <<disk, Force, container_ids, ucas_files, pos, pc, num, shown,
                   log, parsed_data, gencall, loot>>

\* the loop ran through every mod: return True
SbReturn ==
    /\ sb.pc = "loop"
    /\ sb.k = Len(sb.mods)
    /\ sb' = [sb EXCEPT !.pc = "done", !.ret = "True"]
    /\ UNCHANGED <<disk, Force, container_ids, ucas_files, pos, pc, num, shown,
                   log, parsed_data, gencall, loot>>

NextSb == SbCall \/ SbIterate \/ SbReturn

SpecSb == InitSb /\ [][NextSb]_vars

TypeOK ==
    /\ pc \in {"idle", "loop", "raised", "done"}
    /\ pos \in 0..MaxFiles
    /\ num \in 0..MaxFiles
    /\ Len(log) <= MaxFiles

(* ------------------------- property helpers ---------------------------- *)
Calls == 1..Len(log)

\* the header container ID the call found on disk
OldId(e) == FIoContainerId(e.before.utoc)

\* the header of the call's utoc unpacks and carries the expected magic
HeaderOk(e) ==
    Len(e.before.utoc) >= HeaderSize /\ HeaderMagic(e.before.utoc) = EXPECTED_MAGIC

\* the call left both files byte-identical and issued no write
Untouched(e) == e.after = e.before /\ e.writes = <<>>

\* the values held by a registry, whatever the type of the element
Values(ids) == {ids[i].v : i \in 1..Len(ids)}

\* some complete entry record of the utoc has the identifier id and type tag 10
HasContainerEntry(data, id) ==
    \E index \in 0..(TocEntryCount(data) - 1) :
       LET rec == Slice(data, HeaderSize + index * EntrySize,
                        HeaderSize + (index + 1) * EntrySize)
       IN /\ Len(rec) = EntrySize
          /\ FromLE(SubSeq(rec, 1, 8)) = id
          /\ rec[12] = CONTAINER_HEADER

\* 144 + 12*TocEntryCount + 10*TocEntryCount + 12*TocCompressedBlockEntryCount
RequiredLength(data) ==
    HeaderSize + EntrySize * TocEntryCount(data) + LocSize * TocEntryCount(data)
       + BlockSize * FromLE(Slice(data, 28, 32))

(* ------------------------------ C1 ------------------------------------- *)
\* C1: after a batch, the header container IDs of all the containers the
\* batch processed without error are pairwise distinct.
C1_Uniqueness ==
    pc = "done" =>
       \A i \in Calls, j \in Calls :
          (/\ log[i].path # log[j].path
           /\ log[i].err = "none"
           /\ log[j].err = "none")
          => FIoContainerId(disk[log[i].path].utoc) # FIoContainerId(disk[log[j].path].utoc)

(* ------------------------------ C2 ------------------------------------- *)
\* C2: once generate_u64_id has assigned the ID N to a file of the batch, a
\* later file whose header ID is N is detected as colliding by _parse_header
\* and is reassigned.
C2_LaterFilesObserve ==
    \A i \in Calls, j \in Calls :
       (/\ i < j
        /\ log[i].assigned
        /\ HeaderOk(log[j])
        /\ OldId(log[j]) = log[i].new)
       => (log[j].changed /\ (log[j].err = "none" => log[j].ret = "True"))

(* ------------------------------ C3 ------------------------------------- *)
\* C3: with the force flag off, a call that finds a header ID that is not in
\* the registry records the ID, writes nothing to the utoc or the ucas, and
\* returns False.
C3_FirstSeenWins ==
    \A i \in Calls :
       (/\ ~Force
        /\ HeaderOk(log[i])
        /\ ~PyIn(OldId(log[i]), log[i].idsBefore))
       => /\ log[i].ret = "False"
          /\ log[i].err = "none"
          /\ ~log[i].assigned
          /\ Untouched(log[i])
          /\ PyIn(OldId(log[i]), log[i].idsAfter)

\* C3 witness: a first file kept its ID and a later file with the same header
\* ID was reassigned
C3_Witness ==
    /\ ~Force
    /\ \E i \in Calls, j \in Calls :
          /\ i < j
          /\ log[i].path # log[j].path
          /\ OldId(log[i]) = OldId(log[j])
          /\ ~PyIn(OldId(log[i]), log[i].idsBefore)
          /\ log[i].ret = "False"
          /\ log[j].ret = "True"

(* ------------------------------ C4 ------------------------------------- *)
\* C4: when the same container ID is presented several times in a batch, the
\* new IDs assigned at different collisions are pairwise different.
C4_DuplicatesDiffer ==
    \A i \in Calls, j \in Calls :
       (/\ i < j
        /\ log[i].changed /\ log[i].assigned
        /\ log[j].changed /\ log[j].assigned
        /\ OldId(log[i]) = OldId(log[j]))
       => log[i].new # log[j].new

(* ------------------------------ C5 ------------------------------------- *)
\* C5: a newly assigned ID differs from the container's old ID and from every
\* ID the registry holds at that moment, header IDs and generated IDs alike.
C5_FreshIds ==
    \A i \in Calls :
       log[i].assigned
       => /\ log[i].new # OldId(log[i])
          /\ log[i].new \notin Values(log[i].idsBefore)

(* ------------------------------ C6 ------------------------------------- *)
\* C6: a colliding file without an entry of type tag 10 whose identifier is
\* the old container ID fails, and its utoc and ucas are left as they were.
C6_ScenarioD ==
    \A i \in Calls :
       (/\ HeaderOk(log[i])
        /\ log[i].changed
        /\ ~HasContainerEntry(log[i].before.utoc, OldId(log[i])))
       => (log[i].err # "none" /\ Untouched(log[i]))

(* ------------------------------ C7 ------------------------------------- *)
\* C7: a utoc whose first 16 bytes are not the expected magic makes parse_utoc
\* fail, with no write to the utoc or to the ucas.
C7_ScenarioB ==
    \A i \in Calls :
       HeaderMagic(log[i].before.utoc) # EXPECTED_MAGIC
       => (log[i].err # "none" /\ log[i].ret = "none" /\ Untouched(log[i]))

\* C7 witness: a utoc with a wrong magic was processed while its header ID
\* was already in the registry
C7_Witness ==
    \E i \in Calls :
       /\ HeaderMagic(log[i].before.utoc) # EXPECTED_MAGIC
       /\ PyIn(OldId(log[i]), log[i].idsBefore)
       /\ pc = "raised"

(* ------------------------------ C8 ------------------------------------- *)
\* C8: a utoc shorter than its header counts require fails before any byte
\* of the utoc or the ucas is written, colliding or not.
C8_ScenarioC ==
    \A i \in Calls :
       (/\ HeaderOk(log[i])
        /\ Len(log[i].before.utoc) < RequiredLength(log[i].before.utoc))
       => (log[i].err # "none" /\ Untouched(log[i]))

(* ------------------------------ C9 ------------------------------------- *)
\* C9: the batch stops before the end of its list only when ID allocation is
\* exhausted; after any other error the files that follow are processed.
C9_ErrorIsolation ==
    (pc = "raised" /\ Len(log) < Len(ucas_files))
    => log[Len(log)].err = "ValueError"

(* ------------------------------ C10 ------------------------------------ *)
\* C10: when the ucas of a colliding file cannot be opened after the utoc
\* writes, the utoc keeps the new ID and the batch is not aborted.
C10_PartialPatch ==
    \A i \in Calls :
       log[i].err = "FileNotFoundError"
       => /\ FIoContainerId(log[i].after.utoc) = log[i].new
          /\ pc # "raised"

(* ------------------------------ C11 ------------------------------------ *)
\* C11: after parse_utoc returned True, the header of the utoc carries the
\* new ID at byte 56 and an entry with type tag 10 carries the new ID.
C11_RoundTrip ==
    \A i \in Calls :
       log[i].ret = "True"
       => /\ FromLE(Slice(log[i].after.utoc, 56, 64)) = log[i].new
          /\ HasContainerEntry(log[i].after.utoc, log[i].new)

(* ------------------------------ C12 ------------------------------------ *)
\* C12: the entry whose identifier parse_utoc overwrites has type tag 10 and
\* carried the old container ID; an entry with that identifier and another
\* type tag is not rewritten.
C12_ContainerEntryRewritten ==
    \A i \in Calls :
       \A k \in 1..Len(log[i].writes) :
          (log[i].writes[k][1] = "utoc" /\ log[i].writes[k][2] # ContainerIdOffset)
          => LET rec == Slice(log[i].before.utoc, log[i].writes[k][2],
                              log[i].writes[k][2] + EntrySize)
             IN /\ FromLE(SubSeq(rec, 1, 8)) = OldId(log[i])
                /\ rec[12] = CONTAINER_HEADER

(* ------------------------------ C13 ------------------------------------ *)
\* the offset of the write the call made to the ucas
UcasWriteOffset(e) == e.writes[Len(e.writes)][2]

\* P + (L mod B) for the entry index of a utoc: L its 40-bit big-endian
\* logical offset, B the compression block size, P the 40-bit little-endian
\* physical offset of block floor(L / B)
PayloadOffset(data, index) ==
    LET L == LogicalOffset(data, index)
        B == CompressionBlockSize(data)
    IN PhysicalOffset(data, L \div B) + (L % B)

\* C13: for a reassigned container the new ID is written into the ucas at
\* P + (L mod B), taken from the records of the located container entry.
C13_BulkOffset ==
    \A i \in Calls :
       (/\ log[i].ret = "True"
        /\ log[i].found
        /\ log[i].idtype = CONTAINER_HEADER)
       => UcasWriteOffset(log[i]) = PayloadOffset(log[i].before.utoc, log[i].index)

(* ------------------------------ C14 ------------------------------------ *)
\* the entry record index of a utoc
EntryRecord(data, index) ==
    Slice(data, HeaderSize + index * EntrySize, HeaderSize + (index + 1) * EntrySize)

\* index of the first complete entry with type tag 10 and the identifier id
ContainerEntryIndex(data, id) ==
    CHOOSE index \in 0..(TocEntryCount(data) - 1) :
       /\ Len(EntryRecord(data, index)) = EntrySize
       /\ FromLE(SubSeq(EntryRecord(data, index), 1, 8)) = id
       /\ EntryRecord(data, index)[12] = CONTAINER_HEADER
       /\ \A other \in 0..(index - 1) :
             ~(/\ Len(EntryRecord(data, other)) = EntrySize
               /\ FromLE(SubSeq(EntryRecord(data, other), 1, 8)) = id
               /\ EntryRecord(data, other)[12] = CONTAINER_HEADER)

\* C14: after a container was reassigned, the 8 bytes of the ucas at the
\* physical offset of the container-header payload are the little-endian
\* new ID, the same value as the header field and the container entry.
C14_CrossFile ==
    \A i \in Calls :
       (/\ log[i].ret = "True"
        /\ HasContainerEntry(log[i].before.utoc, OldId(log[i])))
       => LET index == ContainerEntryIndex(log[i].before.utoc, OldId(log[i]))
              at == PayloadOffset(log[i].before.utoc, index)
          IN /\ Slice(log[i].after.ucas, at, at + 8) = LE(log[i].new, 8)
             /\ FIoContainerId(log[i].after.utoc) = log[i].new
             /\ FromLE(SubSeq(EntryRecord(log[i].after.utoc, index), 1, 8)) = log[i].new

(* ------------------------------ C15 ------------------------------------ *)
TocCompressedBlockEntryCount(data) == FromLE(Slice(data, 28, 32))

\* the compressed-block record b of a utoc lies inside the ucas
BlockInside(data, ucas, b) ==
    PhysicalOffset(data, b)
       + FromLE(Slice(data, BlockOffset(data, b) + 5, BlockOffset(data, b) + 8))
       <= Len(ucas)

\* a pair that satisfies the data model: magic, tables as long as the header
\* counts say, a positive block size, exactly one entry with type tag 10 and
\* its identifier the header's container ID, every entry in an existing
\* block, every block inside the existing ucas
ValidPair(pair) ==
    LET data == pair.utoc
    IN /\ Len(data) >= HeaderSize
       /\ HeaderMagic(data) = EXPECTED_MAGIC
       /\ Len(data) >= RequiredLength(data)
       /\ CompressionBlockSize(data) > 0
       /\ pair.ucasExists
       /\ Cardinality({index \in 0..(TocEntryCount(data) - 1) :
                          EntryRecord(data, index)[12] = CONTAINER_HEADER}) = 1
       /\ HasContainerEntry(data, FIoContainerId(data))
       /\ \A index \in 0..(TocEntryCount(data) - 1) :
             LogicalOffset(data, index) \div CompressionBlockSize(data)
                < TocCompressedBlockEntryCount(data)
       /\ \A b \in 0..(TocCompressedBlockEntryCount(data) - 1) :
             BlockInside(data, pair.ucas, b)

\* C15: a call on a valid pair leaves the length of the utoc and the length
\* of the ucas as they were.
C15_LengthPreserved ==
    \A i \in Calls :
       ValidPair(log[i].before)
       => /\ Len(log[i].after.utoc) = Len(log[i].before.utoc)
          /\ Len(log[i].after.ucas) = Len(log[i].before.ucas)

(* ------------------------------ C16 ------------------------------------ *)
\* the bytes of before that differ in after all lie in the 8 bytes at off
OnlyWindow(before, after, off) ==
    \A k \in 1..Len(before) :
       /\ k <= Len(after)
       /\ after[k] # before[k] => (off < k /\ k <= off + 8)

\* C16: a call changes at most the 8 bytes at utoc offset 56, the 8
\* identifier bytes of one entry record at 144 + 12*i, and 8 bytes of the
\* ucas; every other byte of both files stays as it was.
C16_WriteFrame ==
    \A i \in Calls :
       LET b == log[i].before
           a == log[i].after
       IN /\ Len(a.utoc) = Len(b.utoc)
          /\ \E index \in 0..Len(b.utoc) :
                \A k \in 1..Len(b.utoc) :
                   a.utoc[k] # b.utoc[k]
                   => \/ (ContainerIdOffset < k /\ k <= ContainerIdOffset + 8)
                      \/ (HeaderSize + EntrySize * index < k
                          /\ k <= HeaderSize + EntrySize * index + 8)
          /\ \E off \in 0..Len(b.ucas) : OnlyWindow(b.ucas, a.ucas, off)
          /\ a.ucasExists = b.ucasExists

\* C16 witness: a call wrote the header field, an entry and the ucas
C16_Witness ==
    \E i \in Calls :
       /\ log[i].ret = "True"
       /\ Len(log[i].writes) = 3
       /\ log[i].after.utoc # log[i].before.utoc
       /\ log[i].after.ucas # log[i].before.ucas

(* ------------------------------ C17 ------------------------------------ *)
\* indexes of the complete entry records whose type tag is not 10
PackageEntries(data) ==
    {index \in 0..(TocEntryCount(data) - 1) :
        /\ Len(EntryRecord(data, index)) = EntrySize
        /\ EntryRecord(data, index)[12] # CONTAINER_HEADER}

\* the package/chunk identifiers of a utoc
PackageIds(data) ==
    {FromLE(SubSeq(EntryRecord(data, index), 1, 8)) : index \in PackageEntries(data)}

\* C17: when two containers of a finished batch hold an entry with the same
\* package identifier, the parser's collation lists that identifier with the
\* names of both containers, and no package entry of either is rewritten.
C17_ScenarioE ==
    pc = "done" =>
       \A i \in Calls, j \in Calls :
          (/\ log[i].path # log[j].path
           /\ HeaderOk(log[i]) /\ HeaderOk(log[j])
           /\ log[i].err = "none" /\ log[j].err = "none")
          => \A id \in PackageIds(log[i].before.utoc) \cap PackageIds(log[j].before.utoc) :
                /\ \E k \in 1..Len(parsed_data) :
                      /\ parsed_data[k].id = id
                      /\ {log[i].path, log[j].path} \subseteq parsed_data[k].names
                /\ \A index \in PackageEntries(log[i].before.utoc) :
                      EntryRecord(log[i].after.utoc, index)
                         = EntryRecord(log[i].before.utoc, index)
                /\ \A index \in PackageEntries(log[j].before.utoc) :
                      EntryRecord(log[j].after.utoc, index)
                         = EntryRecord(log[j].before.utoc, index)

(* ------------------------------ C18 ------------------------------------ *)
\* positions of the candidates of a call that are not in the claimed set
FreeDraws(call) ==
    {i \in 1..Retries : call.draws[i] \notin Values(call.ids)}

\* C18: generate_u64_id draws at most 10 candidates, returns the first one
\* that is not in the claimed set and adds it to the set, and raises exactly
\* when all 10 candidates were claimed.
C18_BoundedAllocation ==
    gencall.state = "returned" =>
       /\ gencall.out.tries <= Retries
       /\ gencall.out.raised <=> FreeDraws(gencall) = {}
       /\ ~gencall.out.raised =>
             /\ gencall.out.id \notin Values(gencall.ids)
             /\ \A i \in FreeDraws(gencall) : gencall.out.tries <= i
             /\ gencall.out.id = gencall.draws[gencall.out.tries]
             /\ Values(gencall.out.ids) = Values(gencall.ids) \cup {gencall.out.id}

(* ------------------------------ C19 ------------------------------------ *)
\* C19: when generate_u64_id raises while a file is processed, no byte of
\* that file's utoc or ucas has been written, and that call is the last of
\* the batch: the loop stays on the file and no later file is processed.
C19_ExhaustionFatalClean ==
    \A i \in Calls :
        log[i].err = "ValueError" =>
           /\ Untouched(log[i])
           /\ ~log[i].assigned
           /\ i = Len(log)
           /\ pc = "raised"
           /\ pos = i - 1
           /\ ucas_files[pos + 1] = log[i].path

\* an allocation failed on a file that has files after it in the batch
C19_Witness ==
    /\ log # <<>>
    /\ log[Len(log)].err = "ValueError"
    /\ pos + 1 < Len(ucas_files)

(* ------------------------------ C20 ------------------------------------ *)
IsPrefix(s, t) == Len(s) <= Len(t) /\ SubSeq(t, 1, Len(s)) = s

\* C20: while a batch is running every step keeps the registry as a prefix
\* of the new registry, so no ID is ever removed, and the step that starts a
\* batch leaves the registry empty.
C20_RegistryMonotone ==
    [][/\ pc = "loop" => IsPrefix(container_ids, container_ids')
       /\ (pc # "loop" /\ pc' = "loop") => container_ids' = <<>>]_vars

\* a later batch, started when the previous one had registered IDs, has
\* registered IDs of its own from an empty registry
C20_Witness ==
    /\ pc = "loop"
    /\ pos >= 1
    /\ Len(log) > pos
    /\ log[Len(log) - pos].idsAfter # <<>>
    /\ log[Len(log) - pos + 1].idsBefore = <<>>
    /\ container_ids # <<>>

(* ------------------------------ C21 ------------------------------------ *)
\* C21: with Force set, every file whose header parses and for which the
\* allocation does not run out of candidates gets a new container ID, whether
\* or not its header ID was claimed before: the new ID is written to the
\* header, the old ID is an int element of the registry afterwards, and the
\* new ID differs from the old one.
C21_ForceMode ==
    \A i \in Calls :
       (Force /\ HeaderOk(log[i]) /\ log[i].err # "ValueError")
       => /\ log[i].assigned
          /\ FIoContainerId(log[i].after.utoc) = log[i].new
          /\ PyIn(OldId(log[i]), log[i].idsAfter)
          /\ log[i].new # OldId(log[i])
          /\ log[i].ret # "False"

\* a forced call reassigned a file whose header ID nobody had claimed
C21_Witness ==
    \E i \in Calls :
       /\ Force
       /\ ~log[i].changed
       /\ log[i].assigned
       /\ log[i].ret = "True"
       /\ ~PyIn(OldId(log[i]), log[i].idsBefore)

(* ------------------------------ C22 ------------------------------------ *)
\* handles of one kind that are open after the first n events of a trace
RECURSIVE OpenAfter(_, _, _)
OpenAfter(trace, n, kind) ==
    IF n = 0 THEN 0
    ELSE OpenAfter(trace, n - 1, kind)
            + (IF trace[n] = "open " \o kind THEN 1
               ELSE IF trace[n] = "close " \o kind THEN -1 ELSE 0)

\* the handle events of all the calls made so far, in order
RECURSIVE HandleTrace(_)
HandleTrace(n) == IF n = 0 THEN <<>> ELSE HandleTrace(n - 1) \o log[n].handles

\* C22: at every point of the batch at most one utoc handle and one ucas
\* handle are open, the ucas handle only while the utoc handle of the same
\* call is open, and when a parse_utoc call ends, by return or by any error,
\* every handle it opened is closed.
C22_ScopedHandles ==
    /\ \A n \in 0..Len(HandleTrace(Len(log))) : \A kind \in {"utoc", "ucas"} :
          OpenAfter(HandleTrace(Len(log)), n, kind) \in {0, 1}
    /\ \A i \in Calls :
          /\ OpenAfter(log[i].handles, Len(log[i].handles), "utoc") = 0
          /\ OpenAfter(log[i].handles, Len(log[i].handles), "ucas") = 0
          /\ \A n \in 0..Len(log[i].handles) :
                OpenAfter(log[i].handles, n, "ucas")
                   <= OpenAfter(log[i].handles, n, "utoc")

\* a call that opened both files was followed by a call that ended with an
\* error
C22_Witness ==
    \E i \in Calls :
       /\ i < Len(log)
       /\ \E n \in 1..Len(log[i].handles) : log[i].handles[n] = "open ucas"
       /\ log[Len(log)].err # "none"
       /\ log[Len(log)].handles # <<>>

(* ------------------------------ C23 ------------------------------------ *)
\* entries the for loop of a call looked at: it stops at log index, and a
\* table of 0 entries is not entered
EntryInspections(e) ==
    IF ~e.assigned \/ TocEntryCount(e.before.utoc) = 0 THEN 0 ELSE e.index + 1

\* the tries generate_u64_id would make for the file the loop is about to
\* process, for every sequence of candidates
NextTries ==
    IF pc = "loop" /\ pos < Len(ucas_files)
    THEN LET p == ucas_files[pos + 1]
             hdr == _parse_header(disk[p].utoc, container_ids)
         IN IF CallsGenerate(disk[p], container_ids, Force)
            THEN {generate_u64_id(hdr.ids, d, 1).tries : d \in DrawSeqs}
            ELSE {}
    ELSE {}

\* C23: every started batch ends, normally or with an error; each call
\* inspects at most TocEntryCount entries and draws at most 10 candidates;
\* every call moves the loop one position forward or ends the batch, so each
\* position of the list is visited at most once.
C23_Termination ==
    /\ [](/\ pc \in {"loop", "raised"} => pos <= Len(ucas_files)
          /\ \A i \in Calls :
                EntryInspections(log[i]) <= TocEntryCount(log[i].before.utoc)
          /\ \A t \in NextTries : t <= Retries)
    /\ [][log' # log =>
             /\ Len(log') = Len(log) + 1
             /\ log'[Len(log')].path = ucas_files[pos + 1]
             /\ (pc' = "raised" /\ pos' = pos) \/ (pc' = "loop" /\ pos' = pos + 1)]_vars
    /\ (pc = "loop") ~> (pc \in {"done", "raised"})

\* a batch of two files or more has ended after all of them were processed
C23_Witness ==
    /\ pc = "done"
    /\ Len(log) >= 2
    /\ shown.total = Len(log)

(* ------------------------------ C24 ------------------------------------ *)
\* calls made so far that allocated a new container ID for their file
Reassigned == {i \in Calls : log[i].assigned}

\* C24: a call returns True exactly when it allocated a new container ID for
\* its file and returns False only when it left the file unchanged, so the
\* count kept by the loop, and the count display() shows, is the number of
\* files of the batch that were reassigned.
C24_ChangedResult ==
    /\ \A i \in Calls :
          /\ log[i].ret = "True" <=> log[i].assigned
          /\ log[i].ret = "False" => Untouched(log[i])
    /\ pc \in {"loop", "raised"} => num = Cardinality(Reassigned)
    /\ pc = "done" => shown.num = Cardinality(Reassigned)

(* ------------------------------ C25 ------------------------------------ *)
\* C25: a newly assigned ID differs from the old header ID of its own
\* container and from every header ID read from disk by an earlier call of
\* the same batch.
C25_FreshAgainstDisk ==
    \A i \in Calls :
       log[i].assigned
       => \A j \in 1..i : log[i].new # OldId(log[j])

\* a colliding file was reassigned after a file with another header ID had
\* been read
C25_Witness ==
    \E i \in Calls :
       /\ log[i].assigned
       /\ log[i].changed
       /\ \E j \in 1..(i - 1) : OldId(log[j]) # OldId(log[i])

(* ------------------------------ C26 ------------------------------------ *)
\* C26: a colliding file whose header carries CompressionBlockSize 0 fails,
\* and no byte of its utoc or its ucas has been written.
C26_ZeroBlockSize ==
    \A i \in Calls :
       (/\ HeaderOk(log[i])
        /\ log[i].changed
        /\ CompressionBlockSize(log[i].before.utoc) = 0)
       => (log[i].err # "none" /\ Untouched(log[i]))

(* ------------------------------ C27 ------------------------------------ *)
\* C27: every display() invocation, also one that follows an invocation
\* ended by an error, starts with an empty ucas_files list and num = 0, so
\* the list it processes is exactly the list it collected.
C27_ToolStateReset ==
    [][(pc # "loop" /\ pc' = "loop")
          => /\ ucas_files = <<>>
             /\ num = 0
             /\ num' = 0
             /\ \E l \in ShortBatches : ucas_files' = l]_vars

(* ------------------------------ C28 ------------------------------------ *)
\* what the claim compares of two outcomes: the bytes of both files, the
\* writes made, the registry, and the value returned or the error raised
Observed(r) ==
    [pair |-> r.pair, writes |-> r.writes, ids |-> r.ids, ret |-> r.ret,
     err |-> r.err]

\* the candidate sequences that matter for the file the loop is about to
\* process
NextDraws ==
    IF CallsGenerate(disk[ucas_files[pos + 1]], container_ids, Force)
    THEN DrawSeqs ELSE {NoDraws}

\* C28: whenever the loop is about to process a file, the parser of the
\* plugin and the parser of the script, given the bytes of that pair, the
\* registry, the force flag and the same candidates, make the same writes,
\* leave the same registry and return the same value. Both parsers start a
\* list with the same empty registry and the same files, so agreement on
\* every step is agreement on every list.
C28_ParsersAgree ==
    (pc = "loop" /\ pos < Len(ucas_files))
    => \A draws \in NextDraws :
          Observed(parse_utoc_exe(disk[ucas_files[pos + 1]], container_ids, Force, draws))
             = Observed(parse_utoc(disk[ucas_files[pos + 1]], container_ids, Force, draws))

\* the loop is about to process a file for which the flag decides: its
\* header ID is not claimed, and an earlier file of the list was rewritten
C28_Witness ==
    /\ pc = "loop"
    /\ pos < Len(ucas_files)
    /\ ~_parse_header(disk[ucas_files[pos + 1]].utoc, container_ids).changed
    /\ _parse_header(disk[ucas_files[pos + 1]].utoc, container_ids).err = "none"
    /\ \E i \in Calls : log[i].ret = "True"

(* ------------------------------ C29 ------------------------------------ *)
\* the files that carry a patch name given by this run, as <<mod, file>>
Patched ==
    {p \in UNION {{<<i, j>> : j \in 1..Len(loot.names[i])} : i \in 1..Len(loot.names)} :
        loot.names[p[1]][p[2]].stem = "patch"}

\* the number in the name of a patched file
PatchNumber(p) == ToInt(loot.names[p[1]][p[2]].digits)

InWindow(i) ==
    /\ \E j \in 1..(i - 1) : StartsWith(sb.mods[j], "LogicModsStart")
    /\ \A j \in 1..i : ~StartsWith(sb.mods[j], "LogicModsEnd")

\* C30: when the callback has ended, it has returned True; for SB.exe and
\* SB-Win64-Shipping.exe the ~mods folder of a mod was renamed exactly when
\* the mod is active, has the folder and lies in the window; for any other
\* executable nothing was renamed.
C30_LogicModsWindow ==
    sb.pc \in {"done", "raised"} =>
       /\ sb.ret = "True"
       /\ \A i \in 1..Len(sb.mods) :
             sb.renamed[i] <=>
                /\ Basename(sb.exe) \in {"SB.exe", "SB-Win64-Shipping.exe"}
                /\ sb.mods[i].active
                /\ sb.mods[i].hasMods
                /\ InWindow(i)

====
